---- MODULE Spec2Model ----
(***************************************************************************)
(* Model of sctp-rs/src/internal.rs: the libc binding layer of the SCTP    *)
(* socket API.  Every function of the file is one action.  The layer keeps *)
(* no state between calls, so the state of the model is the record of the  *)
(* last call: what was asked (op), what the kernel was asked and answered  *)
(* (kcalls, kresp), which bytes of a kernel-filled buffer the decoder read *)
(* (reads) and what the function returned (ret).  A call starts from the   *)
(* idle state and Return hands the result to the caller, which drops every *)
(* local of the call: all buffers are locals allocated by the call itself. *)
(*                                                                         *)
(* Byte order: the model is of a little-endian target, so from_ne_bytes / *)
(* native struct fields are little-endian; ports are big-endian on the     *)
(* wire (sin_port / sin6_port).                                            *)
(***************************************************************************)
EXTENDS FiniteSets, Integers, Sequences, TLC

VARIABLES op, kcalls, kresp, reads, ret

vars == <<op, kcalls, kresp, reads, ret>>

(***************************************************************************)
(* Bounds of the model.                                                    *)
(***************************************************************************)
\* longest address list handed to bindx / connectx
MaxAddrs == 2
\* length of the repeating pattern of record kinds the kernel writes
MaxPattern == 2
\* largest address count the kernel reports in get_addrs
MaxCount == 17
\* longest trailing info of a notification
MaxInfo == 2
\* longest event list handed to subscribe_events
MaxEvents == 2

(***************************************************************************)
(* Program constants.                                                      *)
(***************************************************************************)
SOL_SCTP == 132
\* capacity of the get_addrs response buffer
capacity == 256
\* size of the receive payload buffer
RecvBufLen == 4096
\* size of the accept peer-address buffer
AcceptBufLen == 32
\* errno of the unsupported-family failure of get_addrs
EINVAL == 22
\* libc values
AF_INET == 2
AF_INET6 == 10
SizeofSockaddrIn == 16
SizeofSockaddrIn6 == 28
\* offset of SctpGetAddrs.addrs: assoc_id (i32) and addr_count (u32) precede
AddrsOffset == 8
\* values of crate::consts
SCTP_ASSOC_CHANGE == 32769
MSG_NOTIFICATION == 32768

(***************************************************************************)
(* Bytes and native integers.                                              *)
(***************************************************************************)
Zeros(n) == [i \in 1..n |-> 0]

Take(s, n) == SubSeq(s, 1, IF n < Len(s) THEN n ELSE Len(s))

\* the n bytes of s from 0-based offset off; only defined inside s
Slice(s, off, n) == SubSeq(s, off + 1, off + n)

U16ToNe(v) == <<v % 256, v \div 256>>

U16ToBe(v) == <<v \div 256, v % 256>>

\* v < 2^31
U32ToNe(v) == <<v % 256, (v \div 256) % 256, (v \div 65536) % 256, v \div 16777216>>

I32ToNe(v) ==
    IF v >= 0 THEN U32ToNe(v)
    ELSE LET w == U32ToNe(-(v + 1)) IN [i \in 1..4 |-> 255 - w[i]]

\* u16::from_ne_bytes
U16FromNe(b) == b[1] + 256 * b[2]

\* u16::from_be
U16FromBe(b) == 256 * b[1] + b[2]

\* u32::from_ne_bytes (top byte below 128 in every input of the model)
U32FromNe(b) == b[1] + 256 * b[2] + 65536 * b[3] + 16777216 * b[4]

\* i32::from_ne_bytes
I32FromNe(b) ==
    IF b[4] < 128 THEN U32FromNe(b)
    ELSE -(U32FromNe([i \in 1..4 |-> 255 - b[i]])) - 1

RECURSIVE Concat(_)
Concat(ss) == IF ss = <<>> THEN <<>> ELSE Head(ss) \o Concat(Tail(ss))

RECURSIVE SeqsUpTo(_, _)
SeqsUpTo(S, n) ==
    IF n = 0 THEN {<<>>}
    ELSE LET shorter == SeqsUpTo(S, n - 1)
         IN shorter \cup {Append(s, x) : s \in {t \in shorter : Len(t) = n - 1}, x \in S}

(***************************************************************************)
(* Socket addresses and their native records (OsSocketAddr).               *)
(***************************************************************************)
V4(ip, port) == [fam |-> "V4", ip |-> ip, port |-> port]

V6(ip, port, flowinfo, scope_id) ==
    [fam |-> "V6", ip |-> ip, port |-> port, flowinfo |-> flowinfo, scope_id |-> scope_id]

Ip6(last) == [i \in 1..16 |-> IF i = 1 THEN 254 ELSE IF i = 16 THEN last ELSE 0]

\* OsSocketAddr::from(SocketAddr).as_ref(): sockaddr_in or sockaddr_in6
OsSocketAddrBytes(addr) ==
    IF addr.fam = "V4"
    THEN U16ToNe(AF_INET) \o U16ToBe(addr.port) \o addr.ip \o Zeros(8)
    ELSE U16ToNe(AF_INET6) \o U16ToBe(addr.port) \o U32ToNe(addr.flowinfo)
             \o addr.ip \o U32ToNe(addr.scope_id)

\* OsSocketAddr::from_raw_parts(ptr, len): len bytes copied into zeroed
\* sockaddr_in6-sized storage
FromRawParts(b) == Take(b \o Zeros(SizeofSockaddrIn6), SizeofSockaddrIn6)

\* OsSocketAddr::into_addr(): the stored family decides, None for any other
IntoAddr(raw) ==
    LET family == U16FromNe(Slice(raw, 0, 2))
    IN  IF family = AF_INET
        THEN [some |-> TRUE,
              addr |-> V4(Slice(raw, 4, 4), U16FromBe(Slice(raw, 2, 2)))]
        ELSE IF family = AF_INET6
        THEN [some |-> TRUE,
              addr |-> V6(Slice(raw, 8, 16), U16FromBe(Slice(raw, 2, 2)),
                          U32FromNe(Slice(raw, 4, 4)), U32FromNe(Slice(raw, 24, 4)))]
        ELSE [some |-> FALSE]

(***************************************************************************)
(* Inputs of the calls.                                                    *)
(***************************************************************************)
Fds == {3}

Errnos == {9, 22}

AssocIds == {0, 7}

\* what a kernel call answers: success, or -1 with errno set
KernelResults == {[result |-> 0, errno |-> 0]} \cup {[result |-> -1, errno |-> e] : e \in Errnos}

AddrPool ==
    { V4(<<10, 0, 0, 1>>, 0), V4(<<10, 0, 0, 2>>, 8080),
      V6(Ip6(1), 443, 0, 0), V6(Ip6(2), 38412, 5, 2) }

AddrLists == SeqsUpTo(AddrPool, MaxAddrs)

Ok(v) == [kind |-> "Ok", value |-> v]

\* Err(std::io::Error::last_os_error())
LastOsError(k) == [kind |-> "Err", errno |-> k.errno, from |-> "last_os_error"]

\* a Rust panic (failed unwrap, slice index out of range)
Panic == [kind |-> "Panic"]

Idle == op.name = "none"

Init ==
    /\ op = [name |-> "none"]
    /\ kcalls = <<>>
    /\ kresp = [none |-> TRUE]
    /\ reads = <<>>
    /\ ret = [kind |-> "None"]

(***************************************************************************)
(* sctp_bindx_internal                                                     *)
(***************************************************************************)
\* the loop that extends addrs_u8 by each address's record
EncodeAddrs(addrs) == Concat([i \in 1..Len(addrs) |-> OsSocketAddrBytes(addrs[i])])

\* the Remove arm taking the code of the Add arm
BindxOptnameSameCode(flags) == "SCTP_SOCKOPT_BINDX_ADD"

BindxOptname(flags) ==
    IF flags = "Add" THEN "SCTP_SOCKOPT_BINDX_ADD" ELSE "SCTP_SOCKOPT_BINDX_REM"

sctp_bindx_internal(fd, addrs, flags, k) ==
    LET addrs_u8 == EncodeAddrs(addrs)
    IN  /\ op' = [name |-> "bindx", fd |-> fd, addrs |-> addrs, flags |-> flags]
        /\ kcalls' = <<[fn |-> "setsockopt", fd |-> fd, level |-> SOL_SCTP,
                        optname |-> BindxOptname(flags), buf |-> addrs_u8,
                        len |-> Len(addrs_u8), result |-> k.result]>>
        /\ kresp' = k
        /\ reads' = <<>>
        /\ ret' = IF k.result < 0 THEN LastOsError(k) ELSE Ok(<<>>)

Bindx ==
    /\ Idle
    /\ \E fd \in Fds, addrs \in AddrLists, flags \in {"Add", "Remove"}, k \in KernelResults :
            sctp_bindx_internal(fd, addrs, flags, k)

(***************************************************************************)
(* sctp_connectx_internal                                                  *)
(***************************************************************************)
\* setsockopt(SCTP_SOCKOPT_CONNECTX) returns the association id on success
ConnectxResults == {[result |-> a, errno |-> 0] : a \in AssocIds}
                       \cup {[result |-> -1, errno |-> e] : e \in Errnos}

sctp_connectx_internal(fd, addrs, k) ==
    LET addrs_u8 == EncodeAddrs(addrs)
    IN  /\ op' = [name |-> "connectx", fd |-> fd, addrs |-> addrs]
        /\ kcalls' = <<[fn |-> "setsockopt", fd |-> fd, level |-> SOL_SCTP,
                        optname |-> "SCTP_SOCKOPT_CONNECTX", buf |-> addrs_u8,
                        len |-> Len(addrs_u8), result |-> k.result]>>
        /\ kresp' = k
        /\ reads' = <<>>
        /\ ret' = IF k.result < 0 THEN LastOsError(k)
                  ELSE Ok([socket |-> fd, assoc_id |-> k.result])

Connectx ==
    /\ Idle
    /\ \E fd \in Fds, addrs \in AddrLists, k \in ConnectxResults :
            sctp_connectx_internal(fd, addrs, k)


(***************************************************************************)
(* sctp_peeloff_internal                                                   *)
(***************************************************************************)
\* getsockopt(SCTP_SOCKOPT_PEELOFF) fills the sd field of the argument
PeeloffResults == {[result |-> 0, errno |-> 0, sd |-> 5]}
                      \cup {[result |-> -1, errno |-> e, sd |-> 0] : e \in Errnos}

sctp_peeloff_internal(fd, assoc_id, k) ==
    /\ op' = [name |-> "peeloff", fd |-> fd, assoc_id |-> assoc_id]
    /\ kcalls' = <<[fn |-> "getsockopt", fd |-> fd, level |-> SOL_SCTP,
                    optname |-> "SCTP_SOCKOPT_PEELOFF",
                    buf |-> [assoc_id |-> assoc_id], result |-> k.result]>>
    /\ kresp' = k
    /\ reads' = <<>>
    /\ ret' = IF k.result < 0 THEN LastOsError(k) ELSE Ok(k.sd)

Peeloff ==
    /\ Idle
    /\ \E fd \in Fds, assoc_id \in AssocIds, k \in PeeloffResults :
            sctp_peeloff_internal(fd, assoc_id, k)

(***************************************************************************)
(* sctp_socket_internal                                                    *)
(***************************************************************************)
\* libc::socket answers a new descriptor, or -1 with errno set
SocketResults == {[result |-> 3, errno |-> 0]}
                     \cup {[result |-> -1, errno |-> e] : e \in Errnos}

SocketType(assoc) == IF assoc = "OneToOne" THEN "SOCK_STREAM" ELSE "SOCK_SEQPACKET"

\* the function returns the RawFd libc::socket returned, whatever it is
sctp_socket_internal(domain, assoc, k) ==
    /\ op' = [name |-> "socket", domain |-> domain, assoc |-> assoc]
    /\ kcalls' = <<[fn |-> "socket", domain |-> domain, type |-> SocketType(assoc),
                    protocol |-> "IPPROTO_SCTP", result |-> k.result]>>
    /\ kresp' = k
    /\ reads' = <<>>
    /\ ret' = [kind |-> "RawFd", value |-> k.result]

Socket ==
    /\ Idle
    /\ \E domain \in {AF_INET, AF_INET6}, assoc \in {"OneToOne", "OneToMany"},
          k \in SocketResults :
            sctp_socket_internal(domain, assoc, k)

(***************************************************************************)
(* sctp_listen_internal                                                    *)
(***************************************************************************)
sctp_listen_internal(fd, backlog, k) ==
    /\ op' = [name |-> "listen", fd |-> fd, backlog |-> backlog]
    /\ kcalls' = <<[fn |-> "listen", fd |-> fd, backlog |-> backlog,
                    result |-> k.result]>>
    /\ kresp' = k
    /\ reads' = <<>>
    /\ ret' = IF k.result < 0 THEN LastOsError(k) ELSE Ok(<<>>)

Listen ==
    /\ Idle
    /\ \E fd \in Fds, backlog \in {0, 10}, k \in KernelResults :
            sctp_listen_internal(fd, backlog, k)

(***************************************************************************)
(* shutdown_internal                                                       *)
(***************************************************************************)
ShutdownFlags(how) ==
    IF how = "Read" THEN "SHUT_RD" ELSE IF how = "Write" THEN "SHUT_WR" ELSE "SHUT_RDWR"

shutdown_internal(fd, how, k) ==
    /\ op' = [name |-> "shutdown", fd |-> fd, how |-> how]
    /\ kcalls' = <<[fn |-> "shutdown", fd |-> fd, how |-> ShutdownFlags(how),
                    result |-> k.result]>>
    /\ kresp' = k
    /\ reads' = <<>>
    /\ ret' = IF k.result < 0 THEN LastOsError(k) ELSE Ok(<<>>)

Shutdown ==
    /\ Idle
    /\ \E fd \in Fds, how \in {"Read", "Write", "Both"}, k \in KernelResults :
            shutdown_internal(fd, how, k)

(***************************************************************************)
(* close_internal                                                          *)
(***************************************************************************)
\* the result of libc::close is discarded
close_internal(fd, k) ==
    /\ op' = [name |-> "close", fd |-> fd]
    /\ kcalls' = <<[fn |-> "close", fd |-> fd, result |-> k.result]>>
    /\ kresp' = k
    /\ reads' = <<>>
    /\ ret' = [kind |-> "Unit"]

Close ==
    /\ Idle
    /\ \E fd \in Fds, k \in KernelResults : close_internal(fd, k)

(***************************************************************************)
(* sctp_getaddrs_internal (sctp_getpaddrs_internal, sctp_getladdrs_internal) *)
(***************************************************************************)
RecordKinds == {"V4", "V6", "Other"}

Patterns == SeqsUpTo(RecordKinds, MaxPattern) \ {<<>>}

\* the kernel writes records for as long as the buffer has room for a tag
MaxRecords == (capacity - AddrsOffset) \div SizeofSockaddrIn + 1

\* the i-th address of an association, of the given family
KernelAddr(kind, i) ==
    IF kind = "V4" THEN V4(<<10, 0, 0, i>>, 5000 + i)
    ELSE V6(Ip6(i), 6000 + i, i, i + 1)

\* its record in the response: a sockaddr_in, a sockaddr_in6, or a record of
\* a family this layer does not know (AF_UNIX)
KernelRecord(kind, i) ==
    IF kind = "Other" THEN U16ToNe(1) \o Zeros(14)
    ELSE OsSocketAddrBytes(KernelAddr(kind, i))

KindAt(pattern, i) == pattern[((i - 1) % Len(pattern)) + 1]

\* the response buffer after getsockopt: struct sctp_getaddrs (assoc_id,
\* addr_num, addrs[]) in the first `capacity` bytes, zero where not written
GetAddrsBuffer(assoc_id, count, pattern, written) ==
    Take(I32ToNe(assoc_id) \o U32ToNe(count)
            \o Concat([i \in 1..written |-> KernelRecord(KindAt(pattern, i), i)])
            \o Zeros(capacity),
         capacity)

\* what getsockopt answers: failure, or a buffer holding a count and records;
\* `exact` responses hold `count` records, the others fill the buffer
GetAddrsResponses ==
    {[result |-> -1, errno |-> e] : e \in Errnos}
        \cup {[result |-> 0, errno |-> 0, count |-> c, pattern |-> p,
               written |-> IF x /\ c < MaxRecords THEN c ELSE MaxRecords]
                  : c \in 0..MaxCount, p \in Patterns, x \in BOOLEAN}

\* what lies in memory after the buffer: not the program's to read
Garbage == {<<0, 0>>, <<2, 0>>, <<10, 0>>}

\* n bytes at 0-based offset off of the buffer, running into the memory
\* after it when off + n > capacity
MemRead(buf, g, off, n) ==
    [i \in 1..n |-> IF off + i - 1 < capacity THEN buf[off + i]
                    ELSE g[((off + i - 1) % 2) + 1]]

GetAddrsErr == [kind |-> "Err", errno |-> EINVAL, from |-> "from_raw_os_error"]

\* every record advanced by the size of sockaddr_in
SizeOfFamilyAlwaysIn(family) == SizeofSockaddrIn

SizeOfFamily(family) ==
    IF family = AF_INET THEN SizeofSockaddrIn ELSE SizeofSockaddrIn6

\* the loop `for _ in 0..addr_count` over sockaddr_ptr: off is the offset of
\* sockaddr_ptr in the buffer, n the iterations left, rd the reads so far
RECURSIVE WalkAddrs(_, _, _, _, _, _)
WalkAddrs(buf, g, off, n, peeraddrs, rd) ==
    IF n = 0 THEN [ret |-> Ok(peeraddrs), reads |-> rd, cursor |-> off]
    ELSE LET sa_family == U16FromNe(MemRead(buf, g, off, 2))
             rdTag == Append(rd, [off |-> off, len |-> 2])
         IN  IF sa_family = AF_INET \/ sa_family = AF_INET6
             THEN LET size == SizeOfFamily(sa_family)
                      raw == FromRawParts(MemRead(buf, g, off, size))
                  IN  WalkAddrs(buf, g, off + size, n - 1,
                                Append(peeraddrs, IntoAddr(raw).addr),
                                Append(rdTag, [off |-> off, len |-> size]))
             ELSE [ret |-> GetAddrsErr, reads |-> rdTag, cursor |-> off]

OutOfBounds(rd) == \E i \in 1..Len(rd) : rd[i].off + rd[i].len > capacity

\* a read past the allocation is undefined behaviour: the call may go on
\* with whatever the memory holds, or the process may die
sctp_getaddrs_internal(fd, flags, assoc_id, k, g, dies) ==
    /\ op' = [name |-> "get_addrs", fd |-> fd, flags |-> flags, assoc_id |-> assoc_id]
    /\ kcalls' = <<[fn |-> "getsockopt", fd |-> fd, level |-> SOL_SCTP,
                    optname |-> flags, buf |-> [assoc_id |-> assoc_id],
                    len |-> capacity, result |-> k.result]>>
    /\ kresp' = k
    /\ IF k.result < 0
       THEN /\ ret' = LastOsError(k)
            /\ reads' = <<>>
       ELSE \E addrs_buff \in {GetAddrsBuffer(assoc_id, k.count, k.pattern, k.written)} :
            \E w \in {WalkAddrs(addrs_buff, g, AddrsOffset,
                                U32FromNe(Slice(addrs_buff, 4, 4)), <<>>, <<>>)} :
                /\ reads' = w.reads
                /\ ret' = IF OutOfBounds(w.reads) /\ dies
                          THEN [kind |-> "Crash"]
                          ELSE w.ret @@ [cursor |-> w.cursor]

GetAddrs ==
    /\ Idle
    /\ \E fd \in Fds, flags \in {"SCTP_GET_PEER_ADDRS", "SCTP_GET_LOCAL_ADDRS"},
          assoc_id \in AssocIds, k \in GetAddrsResponses, g \in Garbage,
          dies \in BOOLEAN :
            sctp_getaddrs_internal(fd, flags, assoc_id, k, g, dies)

(***************************************************************************)
(* accept_internal                                                         *)
(***************************************************************************)
\* what libc::accept answers: failure, or a new descriptor with the peer's
\* record and its length written to the 32-byte buffer
AcceptResponses ==
    {[result |-> -1, errno |-> e] : e \in Errnos}
        \cup {[result |-> 4, errno |-> 0, record |-> r]
                  : r \in {KernelRecord(kd, i) : kd \in RecordKinds, i \in 1..2}
                              \cup {<<>>}}

accept_internal(fd, k) ==
    /\ op' = [name |-> "accept", fd |-> fd]
    /\ kcalls' = <<[fn |-> "accept", fd |-> fd, len |-> AcceptBufLen,
                    result |-> k.result]>>
    /\ kresp' = k
    /\ IF k.result < 0
       THEN /\ ret' = LastOsError(k)
            /\ reads' = <<>>
       ELSE LET addrs_buff == Take(k.record \o Zeros(AcceptBufLen), AcceptBufLen)
                addrs_len == Len(k.record)
                socketaddr == IntoAddr(FromRawParts(Take(addrs_buff, addrs_len)))
            IN  /\ reads' = <<[off |-> 0, len |-> addrs_len]>>
                /\ ret' = IF socketaddr.some
                          THEN Ok([socket |-> k.result, addr |-> socketaddr.addr])
                          ELSE Panic

Accept ==
    /\ Idle
    /\ \E fd \in Fds, k \in AcceptResponses : accept_internal(fd, k)

(***************************************************************************)
(* notification_from_message                                               *)
(***************************************************************************)
\* struct sctp_assoc_change as the kernel lays it out, info bytes after it
KernelNotification(tag, f, info) ==
    U16ToNe(tag) \o U16ToNe(f.flags) \o U32ToNe(f.length) \o U16ToNe(f.state)
        \o U16ToNe(f.error) \o U16ToNe(f.ob_streams) \o U16ToNe(f.ib_streams)
        \o I32ToNe(f.assoc_id) \o info

NotificationFields ==
    { [flags |-> 0, length |-> 20, state |-> 0, error |-> 0,
       ob_streams |-> 10, ib_streams |-> 5, assoc_id |-> 7],
      [flags |-> 258, length |-> 66051, state |-> 4, error |-> 513,
       ob_streams |-> 65535, ib_streams |-> 256, assoc_id |-> -2] }

\* the association-change tag, the next notification type, the tag with its
\* two bytes swapped, and a tag that is no notification type
NotificationTags == {SCTP_ASSOC_CHANGE, SCTP_ASSOC_CHANGE + 1, 384, 1}

InfoBytes(n) == [i \in 1..n |-> 200 + i]

\* every notification, and every prefix of one
Payloads ==
    UNION { {Take(KernelNotification(tag, f, InfoBytes(n)), m) : m \in 0..(20 + n)}
                : tag \in NotificationTags, f \in NotificationFields, n \in 0..MaxInfo }

\* the error field read at the offset of the state field, info from byte 19
notification_from_message_offsets(data) ==
    IF Len(data) < 2 THEN Panic
    ELSE LET notification_type == U16FromNe(Slice(data, 0, 2))
         IN  IF notification_type = SCTP_ASSOC_CHANGE
             THEN IF Len(data) < 20 THEN Panic
                  ELSE [kind |-> "AssociationChange",
                        assoc_type |-> U16FromNe(Slice(data, 0, 2)),
                        flags |-> U16FromNe(Slice(data, 2, 2)),
                        length |-> U32FromNe(Slice(data, 4, 4)),
                        state |-> U16FromNe(Slice(data, 8, 2)),
                        error |-> U16FromNe(Slice(data, 8, 2)),
                        ob_streams |-> U16FromNe(Slice(data, 12, 2)),
                        ib_streams |-> U16FromNe(Slice(data, 14, 2)),
                        assoc_id |-> I32FromNe(Slice(data, 16, 4)),
                        info |-> SubSeq(data, 20, Len(data))]
             ELSE [kind |-> "Unsupported"]

\* the 20 bytes of an association change demanded of every notification
notification_from_message_eager(data) ==
    IF Len(data) < 20 THEN Panic
    ELSE LET notification_type == U16FromNe(Slice(data, 0, 2))
         IN  IF notification_type = SCTP_ASSOC_CHANGE
             THEN [kind |-> "AssociationChange",
                   assoc_type |-> U16FromNe(Slice(data, 0, 2)),
                   flags |-> U16FromNe(Slice(data, 2, 2)),
                   length |-> U32FromNe(Slice(data, 4, 4)),
                   state |-> U16FromNe(Slice(data, 8, 2)),
                   error |-> U16FromNe(Slice(data, 10, 2)),
                   ob_streams |-> U16FromNe(Slice(data, 12, 2)),
                   ib_streams |-> U16FromNe(Slice(data, 14, 2)),
                   assoc_id |-> I32FromNe(Slice(data, 16, 4)),
                   info |-> SubSeq(data, 21, Len(data))]
             ELSE [kind |-> "Unsupported"]

\* data[a..b] panics when b > data.len(): data[0..2] needs 2 bytes, and the
\* fields of the SCTP_ASSOC_CHANGE arm need data[16..20] and data[20..]
notification_from_message(data) ==
    IF Len(data) < 2 THEN Panic
    ELSE LET notification_type == U16FromNe(Slice(data, 0, 2))
         IN  IF notification_type = SCTP_ASSOC_CHANGE
             THEN IF Len(data) < 20 THEN Panic
                  ELSE [kind |-> "AssociationChange",
                        assoc_type |-> U16FromNe(Slice(data, 0, 2)),
                        flags |-> U16FromNe(Slice(data, 2, 2)),
                        length |-> U32FromNe(Slice(data, 4, 4)),
                        state |-> U16FromNe(Slice(data, 8, 2)),
                        error |-> U16FromNe(Slice(data, 10, 2)),
                        ob_streams |-> U16FromNe(Slice(data, 12, 2)),
                        ib_streams |-> U16FromNe(Slice(data, 14, 2)),
                        assoc_id |-> I32FromNe(Slice(data, 16, 4)),
                        info |-> SubSeq(data, 21, Len(data))]
             ELSE [kind |-> "Unsupported"]

\* the function applied to a byte slice of any length
NotificationFromMessage ==
    /\ Idle
    /\ \E data \in Payloads :
        /\ op' = [name |-> "decode_notification", data |-> data]
        /\ kcalls' = <<>>
        /\ kresp' = [none |-> TRUE]
        /\ reads' = <<>>
        /\ ret' = notification_from_message(data)

(***************************************************************************)
(* sctp_recvmsg_internal                                                   *)
(***************************************************************************)
\* a message that fills the whole payload buffer
FullPayload == [i \in 1..RecvBufLen |-> i % 251]

\* msg_flags the kernel reports: none, MSG_EOR, MSG_NOTIFICATION, both
RecvFlags == {0, 128, MSG_NOTIFICATION, MSG_NOTIFICATION + 128}

\* what libc::recvmsg answers: failure, or the number of bytes it wrote to
\* the payload buffer and the flags of the message
RecvResponses ==
    {[result |-> -1, errno |-> e] : e \in Errnos}
        \cup {[result |-> Len(p), errno |-> 0, payload |-> p, msg_flags |-> fl]
                  : p \in Payloads \cup {FullPayload}, fl \in RecvFlags}

\* the flags compared with the bit instead of masked by it
HasFlagEquals(received_flags, bit) == received_flags = bit

\* received_flags & bit != 0, bit a power of two
HasFlag(received_flags, bit) == (received_flags \div bit) % 2 = 1

sctp_recvmsg_internal(fd, k) ==
    /\ op' = [name |-> "recvmsg", fd |-> fd]
    /\ kcalls' = <<[fn |-> "recvmsg", fd |-> fd, iov_len |-> RecvBufLen,
                    flags |-> 0, result |-> k.result]>>
    /\ kresp' = k
    /\ reads' = <<>>
    /\ IF k.result < 0
       THEN ret' = LastOsError(k)
       ELSE \E recv_buffer \in {Take(Take(k.payload \o Zeros(RecvBufLen), RecvBufLen),
                                     k.result)} :
                IF HasFlag(k.msg_flags, MSG_NOTIFICATION)
                THEN \E n \in {notification_from_message(recv_buffer)} :
                        ret' = IF n = Panic THEN Panic
                               ELSE Ok([variant |-> "Notification", notification |-> n])
                ELSE ret' = Ok([variant |-> "Data", data |-> recv_buffer])

Recvmsg ==
    /\ Idle
    /\ \E fd \in Fds, k \in RecvResponses : sctp_recvmsg_internal(fd, k)

(***************************************************************************)
(* sctp_events_subscribe_internal                                          *)
(***************************************************************************)
AllEvents ==
    << "DataIo", "Association", "Address", "SendFailure", "PeerError", "Shutdown",
       "PartialDelivery", "AdaptationLayer", "Authentication", "SenderDry",
       "StreamReset", "AssociationReset", "StreamChange", "SendFailureEvent" >>

SctpEvent == {AllEvents[i] : i \in 1..Len(AllEvents)}

\* the fields of SctpEventSubscribe
SubscribeFields ==
    { "data_io", "association", "address", "send_failure", "peer_error", "shutdown",
      "partial_delivery", "adaptation_layer", "authentication", "sender_dry",
      "stream_reset", "association_reset", "stream_change", "send_failure_event" }

\* the SendFailureEvent arm setting the field of SendFailure
FieldOfSendFailureTwice(ev) ==
    CASE ev = "DataIo" -> "data_io"
      [] ev = "Association" -> "association"
      [] ev = "Address" -> "address"
      [] ev = "SendFailure" -> "send_failure"
      [] ev = "PeerError" -> "peer_error"
      [] ev = "Shutdown" -> "shutdown"
      [] ev = "PartialDelivery" -> "partial_delivery"
      [] ev = "AdaptationLayer" -> "adaptation_layer"
      [] ev = "Authentication" -> "authentication"
      [] ev = "SenderDry" -> "sender_dry"
      [] ev = "StreamReset" -> "stream_reset"
      [] ev = "AssociationReset" -> "association_reset"
      [] ev = "StreamChange" -> "stream_change"
      [] ev = "SendFailureEvent" -> "send_failure"

\* the arms of `match ev`
FieldOf(ev) ==
    CASE ev = "DataIo" -> "data_io"
      [] ev = "Association" -> "association"
      [] ev = "Address" -> "address"
      [] ev = "SendFailure" -> "send_failure"
      [] ev = "PeerError" -> "peer_error"
      [] ev = "Shutdown" -> "shutdown"
      [] ev = "PartialDelivery" -> "partial_delivery"
      [] ev = "AdaptationLayer" -> "adaptation_layer"
      [] ev = "Authentication" -> "authentication"
      [] ev = "SenderDry" -> "sender_dry"
      [] ev = "StreamReset" -> "stream_reset"
      [] ev = "AssociationReset" -> "association_reset"
      [] ev = "StreamChange" -> "stream_change"
      [] ev = "SendFailureEvent" -> "send_failure_event"

\* SctpEventSubscribe::default()
DefaultSubscribe == [f \in SubscribeFields |-> 0]

\* the loop `for ev in events`
RECURSIVE SetEvents(_, _)
SetEvents(subscriber, events) ==
    IF events = <<>> THEN subscriber
    ELSE SetEvents([subscriber EXCEPT ![FieldOf(Head(events))] = 1], Tail(events))

Reverse(s) == [i \in 1..Len(s) |-> s[Len(s) + 1 - i]]

EventLists == SeqsUpTo(SctpEvent, MaxEvents) \cup {AllEvents, Reverse(AllEvents)}

sctp_events_subscribe_internal(fd, events, k) ==
    /\ op' = [name |-> "subscribe_events", fd |-> fd, events |-> events]
    /\ kcalls' = <<[fn |-> "setsockopt", fd |-> fd, level |-> SOL_SCTP,
                    optname |-> "SCTP_EVENTS",
                    buf |-> SetEvents(DefaultSubscribe, events),
                    result |-> k.result]>>
    /\ kresp' = k
    /\ reads' = <<>>
    /\ ret' = IF k.result < 0 THEN LastOsError(k) ELSE Ok(<<>>)

EventsSubscribe ==
    /\ Idle
    /\ \E fd \in Fds, events \in EventLists, k \in KernelResults :
            sctp_events_subscribe_internal(fd, events, k)

(***************************************************************************)
(* The caller takes the result; the locals of the call are dropped.        *)
(***************************************************************************)
Return ==
    /\ ~Idle
    /\ op' = [name |-> "none"]
    /\ kcalls' = <<>>
    /\ kresp' = [none |-> TRUE]
    /\ reads' = <<>>
    /\ ret' = [kind |-> "None"]

Next ==
    \/ Bindx
    \/ Connectx
    \/ Peeloff
    \/ Socket
    \/ Listen
    \/ Shutdown
    \/ Close
    \/ GetAddrs
    \/ Accept
    \/ NotificationFromMessage
    \/ Recvmsg
    \/ EventsSubscribe
    \/ Return

Spec == Init /\ [][Next]_vars

(***************************************************************************)
(* Properties.                                                             *)
(***************************************************************************)
\* the response buffer of the last get_addrs call, as the kernel left it
LastGetAddrsBuffer == GetAddrsBuffer(op.assoc_id, kresp.count, kresp.pattern, kresp.written)

GetAddrsSucceeded == op.name = "get_addrs" /\ kresp.result >= 0

\* C1: get_addrs reads no tag and no address record past the end of the
\* 256-byte response buffer, whatever count and family tags the buffer holds;
\* when too few bytes remain it fails explicitly (it returns a value or an
\* error, the process does not die).
C1_GetAddrsStaysInBuffer ==
    GetAddrsSucceeded =>
        /\ \A i \in 1..Len(reads) : reads[i].off + reads[i].len <= capacity
        /\ ret.kind \in {"Ok", "Err"}

\* C2: decode_notification, and receive of a message flagged as a
\* notification, never abort: for a payload of any length, also shorter than
\* 2 bytes or an association change shorter than 20 bytes, a value or a
\* decode failure is returned.
C2_DecodeNeverAborts ==
    op.name \in {"decode_notification", "recvmsg"} => ret.kind # "Panic"

KernelOps ==
    { "bindx", "connectx", "peeloff", "get_addrs", "subscribe_events", "socket",
      "listen", "accept", "recvmsg", "shutdown" }

\* C3: every operation that issues a kernel call issues it exactly once and,
\* when the call fails, returns the OS error to the caller: no retry, no
\* success value, create_socket included.
C3_KernelFailureIsReturned ==
    op.name \in KernelOps =>
        /\ Len(kcalls) = 1
        /\ kcalls[1].result < 0 =>
              /\ ret.kind = "Err"
              /\ ret.from = "last_os_error"
              /\ ret.errno = kresp.errno

\* the failure the code reports for a family it does not support
IsUnsupportedFamilyFailure(r) == r.kind = "Err" /\ r.from = "from_raw_os_error"

SupportedTag(tag) == tag = U16ToNe(AF_INET) \/ tag = U16ToNe(AF_INET6)

\* the walk of get_addrs stopped on a tag inside the buffer that is neither
\* family: its last read is a tag read with no record read after it
GetAddrsMetUnsupported ==
    /\ GetAddrsSucceeded
    /\ reads # <<>>
    /\ LET last == reads[Len(reads)]
       IN  /\ last.len = 2
           /\ last.off + 2 <= capacity
           /\ ~SupportedTag(Slice(LastGetAddrsBuffer, last.off, 2))

AcceptMetUnsupported ==
    /\ op.name = "accept"
    /\ kresp.result >= 0
    /\ Len(kresp.record) >= 2
    /\ ~SupportedTag(Slice(kresp.record, 0, 2))

\* C4: when a record of a kernel-filled buffer carries a family tag that is
\* neither IPv4 nor IPv6, get_addrs and accept fail with the unsupported-family
\* error, consume no byte of that record and return no address; they do not
\* abort.
C4_UnsupportedFamilyFails ==
    /\ GetAddrsMetUnsupported =>
          /\ IsUnsupportedFamilyFailure(ret)
          /\ ret.cursor = reads[Len(reads)].off
    /\ AcceptMetUnsupported => IsUnsupportedFamilyFailure(ret)

\* size of the native record of a family
RecordSize(kind) == IF kind = "V4" THEN 16 ELSE 28

RECURSIVE RecordsSize(_, _)
RecordsSize(pattern, n) ==
    IF n = 0 THEN 0 ELSE RecordsSize(pattern, n - 1) + RecordSize(KindAt(pattern, n))

\* the response declares count N and holds N records of supported families
HoldsDeclaredRecords ==
    /\ GetAddrsSucceeded
    /\ kresp.count <= kresp.written
    /\ \A i \in 1..kresp.count : KindAt(kresp.pattern, i) # "Other"
    /\ AddrsOffset + RecordsSize(kresp.pattern, kresp.count) <= capacity

\* the reads of whole records, without the reads of their tags
RecordReads == SelectSeq(reads, LAMBDA r : r.len > 2)

\* C5: a get_addrs response that declares count N and holds N records of
\* supported families yields exactly the N addresses in buffer order; record
\* i+1 is read where record i ends, an IPv4 record being 16 and an IPv6 record
\* 28 bytes; nothing is read after the N-th record even when bytes remain, and
\* for N = 0 the list is empty and nothing is decoded.
C5_GetAddrsDecodesDeclaredCount ==
    HoldsDeclaredRecords =>
        /\ ret.kind = "Ok"
        /\ Len(ret.value) = kresp.count
        /\ \A i \in 1..kresp.count :
              ret.value[i] = KernelAddr(KindAt(kresp.pattern, i), i)
        /\ Len(RecordReads) = kresp.count
        /\ \A i \in 1..kresp.count :
              /\ RecordReads[i].off = AddrsOffset + RecordsSize(kresp.pattern, i - 1)
              /\ RecordReads[i].len = RecordSize(KindAt(kresp.pattern, i))
        /\ ret.cursor = AddrsOffset + RecordsSize(kresp.pattern, kresp.count)
        /\ kresp.count = 0 => reads = <<>> /\ ret.value = <<>>

\* three records of both families decoded while more records lie behind them
C5_Witness ==
    /\ HoldsDeclaredRecords
    /\ kresp.count = 3
    /\ kresp.pattern = <<"V4", "V6">>
    /\ kresp.written > kresp.count
    /\ ret.kind = "Ok"
    /\ Len(ret.value) = 3

\* the field of SctpEventSubscribe that belongs to each event kind, in the
\* order of AllEvents
EventFieldNames ==
    << "data_io", "association", "address", "send_failure", "peer_error", "shutdown",
       "partial_delivery", "adaptation_layer", "authentication", "sender_dry",
       "stream_reset", "association_reset", "stream_change", "send_failure_event" >>

\* C6: the record subscribe_events hands to the kernel has the field of an
\* event kind enabled exactly when the kind is in the input; distinct kinds
\* enable distinct fields, the empty input gives the all-disabled record, and
\* order and repetition of the input do not matter.
C6_EventMappingTotalInjective ==
    op.name = "subscribe_events" =>
        LET record == kcalls[1].buf
            kinds == {op.events[i] : i \in 1..Len(op.events)}
        IN  /\ DOMAIN record = {EventFieldNames[i] : i \in 1..14}
            /\ \A i \in 1..14 :
                  record[EventFieldNames[i]] = (IF AllEvents[i] \in kinds THEN 1 ELSE 0)
            /\ Cardinality({f \in DOMAIN record : record[f] = 1}) = Cardinality(kinds)
            /\ kinds = {} => \A f \in DOMAIN record : record[f] = 0

\* one kind given twice enables one field only
C6_Witness ==
    /\ op.name = "subscribe_events"
    /\ op.events = <<"SendFailureEvent", "SendFailureEvent">>
    /\ kcalls[1].buf["send_failure_event"] = 1
    /\ kcalls[1].buf["send_failure"] = 0

IsAssocChangeBuffer(data) ==
    Len(data) >= 20 /\ Slice(data, 0, 2) = U16ToNe(SCTP_ASSOC_CHANGE)

\* C7: for a buffer of at least 20 bytes whose leading tag is the
\* association-change code, decode_notification returns an AssociationChange
\* whose fields are the native-order integers at offsets 0..2, 2..4, 4..8,
\* 8..10, 10..12, 12..14, 14..16 and 16..20, and whose info is the bytes from
\* offset 20 to the end (none for a buffer of exactly 20 bytes).
C7_AssocChangeFieldsAtOffsets ==
    (op.name = "decode_notification" /\ IsAssocChangeBuffer(op.data)) =>
        /\ ret.kind = "AssociationChange"
        /\ U16ToNe(ret.assoc_type) = Slice(op.data, 0, 2)
        /\ U16ToNe(ret.flags) = Slice(op.data, 2, 2)
        /\ U32ToNe(ret.length) = Slice(op.data, 4, 4)
        /\ U16ToNe(ret.state) = Slice(op.data, 8, 2)
        /\ U16ToNe(ret.error) = Slice(op.data, 10, 2)
        /\ U16ToNe(ret.ob_streams) = Slice(op.data, 12, 2)
        /\ U16ToNe(ret.ib_streams) = Slice(op.data, 14, 2)
        /\ I32ToNe(ret.assoc_id) = Slice(op.data, 16, 4)
        /\ Len(ret.info) = Len(op.data) - 20
        /\ \A i \in 1..Len(ret.info) : ret.info[i] = op.data[20 + i]

\* an association change with a negative association id and trailing info
C7_Witness ==
    /\ op.name = "decode_notification"
    /\ IsAssocChangeBuffer(op.data)
    /\ Len(op.data) > 20
    /\ ret.kind = "AssociationChange"
    /\ ret.assoc_id < 0
    /\ ret.info # <<>>

\* C8: for a buffer whose 2-byte leading tag is not the association-change
\* code, decode_notification returns Unsupported, with no payload, and does
\* not fail, whatever follows the tag.
C8_OtherTagIsUnsupported ==
    (/\ op.name = "decode_notification"
     /\ Len(op.data) >= 2
     /\ Slice(op.data, 0, 2) # U16ToNe(SCTP_ASSOC_CHANGE)) =>
        ret = [kind |-> "Unsupported"]

\* the tag alone, with the bytes of the association-change code swapped
C8_Witness ==
    /\ op.name = "decode_notification"
    /\ op.data = <<128, 1>>
    /\ ret.kind = "Unsupported"

\* C9: a receive call that succeeds returns a Notification exactly when the
\* kernel set the is-notification flag, and otherwise Data holding the first n
\* bytes the kernel wrote to the payload buffer, n being the count it reported
\* (no byte for n = 0); nothing of an earlier call is in it.
C9_ReceiveNotificationOrData ==
    (op.name = "recvmsg" /\ ret.kind = "Ok") =>
        /\ ret.value.variant \in {"Notification", "Data"}
        /\ ret.value.variant = "Notification" <=>
              kresp.msg_flags \in {MSG_NOTIFICATION, MSG_NOTIFICATION + 128}
        /\ ret.value.variant = "Data" =>
              /\ Len(ret.value.data) = kresp.result
              /\ \A i \in 1..kresp.result : ret.value.data[i] = kresp.payload[i]

\* data of a message that also carries the end-of-record flag
C9_Witness ==
    /\ op.name = "recvmsg"
    /\ ret.kind = "Ok"
    /\ kresp.msg_flags = 128
    /\ kresp.result > 0
    /\ ret.value.variant = "Data"
    /\ Len(ret.value.data) = kresp.result

RECURSIVE AddrsSize(_, _)
AddrsSize(addrs, n) ==
    IF n = 0 THEN 0 ELSE AddrsSize(addrs, n - 1) + RecordSize(addrs[n].fam)

\* C10: bindx issues exactly one set-option call at the SCTP level, with the
\* bind-add code for Add and the bind-remove code for Remove, whose buffer is
\* the records of the addresses in order without padding (each record found
\* where the previous one ends) and whose length is the sum of the record
\* sizes; the empty list gives the empty buffer.
C10_BindxEncodesAndCallsOnce ==
    op.name = "bindx" =>
        /\ Len(kcalls) = 1
        /\ LET call == kcalls[1]
           IN  /\ call.fn = "setsockopt"
               /\ call.level = 132
               /\ call.optname = (IF op.flags = "Add" THEN "SCTP_SOCKOPT_BINDX_ADD"
                                  ELSE "SCTP_SOCKOPT_BINDX_REM")
               /\ call.len = Len(call.buf)
               /\ Len(call.buf) = AddrsSize(op.addrs, Len(op.addrs))
               /\ \A i \in 1..Len(op.addrs) :
                     IntoAddr(FromRawParts(Slice(call.buf, AddrsSize(op.addrs, i - 1),
                                                 RecordSize(op.addrs[i].fam))))
                        = [some |-> TRUE, addr |-> op.addrs[i]]

\* the removal of an IPv4 and an IPv6 address: 44 bytes
C10_Witness ==
    /\ op.name = "bindx"
    /\ op.flags = "Remove"
    /\ Len(op.addrs) = 2
    /\ op.addrs[1].fam = "V4"
    /\ op.addrs[2].fam = "V6"
    /\ kcalls[1].len = 44
    /\ kcalls[1].optname = "SCTP_SOCKOPT_BINDX_REM"
====
